---- MODULE Spec2Model ----
(***************************************************************************)
(* The Restaurant CRUD handlers of restaurant/views.py.                    *)
(*                                                                         *)
(* restaurant_list   (GET, POST)               fbv/restaurants/            *)
(* restaurant_detail (GET, PUT, DELETE, PATCH) fbv/restaurants/<int:pk>/   *)
(*                                                                         *)
(* Spec     : requests handled one after another, one action per handler   *)
(*            and verb.                                                    *)
(* SpecConc : two workers run restaurant_detail at the same time; the      *)
(*            lookup (objects.get) and the write (save / delete) are two   *)
(*            database statements and other workers run between them.      *)
(***************************************************************************)
EXTENDS Integers, Sequences, FiniteSets, TLC

\* Largest identifier the table hands out in a run (bound of the model).
MaxId == 2

\* Status codes used by the handlers.
HTTP_200_OK == 200
HTTP_201_CREATED == 201
HTTP_204_NO_CONTENT == 204
HTTP_400_BAD_REQUEST == 400
HTTP_404_NOT_FOUND == 404

(***************************************************************************)
(* The Restaurant schema. models.py and serializers.py are not part of the *)
(* sources at hand: the fields follow the specification (a required name,  *)
(* further fields that a creation may omit, a read-only identifier).       *)
(***************************************************************************)
Fields == {"name", "address"}
Required == {"name"}
Values == {"a", "b"}
\* A supplied value that fails its field's validation.
Bad == "invalid"
\* What an omitted optional field holds in a new record.
Blank == ""
\* A response without a body; also the empty JSON object of a request.
Empty == <<>>

Ids == 1..MaxId

\* JSON request bodies: any subset of the fields, each with a valid or an
\* invalid value; and bodies that also carry an "id" key, naming any
\* identifier, beside the required fields.
FieldPayloads == UNION { [S -> Values \cup {Bad}] : S \in SUBSET Fields }
IdPayloads == { ("id" :> i) @@ p : p \in [Required -> Values], i \in Ids }
Payloads == FieldPayloads \cup IdPayloads

VARIABLES
    restaurants,  \* Restaurant.objects: identifier -> stored field values
    nextId,       \* the identifier the table assigns to the next insert
    req,          \* Spec: the request handled last
    resp,         \* Spec: its response
    pc,           \* SpecConc: where each worker is inside restaurant_detail
    request,      \* SpecConc: the request each worker is handling
    restaurant,   \* SpecConc: the instance each worker loaded with objects.get
    response      \* SpecConc: the status each worker returned last

vars == <<restaurants, nextId, req, resp, pc, request, restaurant, response>>
concVars == <<pc, request, restaurant, response>>

Request(endpoint, method, pk, data) ==
    [endpoint |-> endpoint, method |-> method, pk |-> pk, data |-> data]

\* No request handled yet.
NoRequest == Request("none", "none", 0, Empty)

Response(body, status) == [status |-> status, body |-> body]

(***************************************************************************)
(* RestaurantSerializer, as views.py uses it: a rest_framework model       *)
(* serializer built from (instance, data, partial). With partial=False a   *)
(* missing required field is an error; a field that is not required and    *)
(* not in a JSON body is skipped, so it is absent from validated_data and  *)
(* save() leaves that attribute of the instance alone.                     *)
(***************************************************************************)
\* The writable fields a body supplies ("id" is read-only and is dropped).
Supplied(data) == DOMAIN data \cap Fields

\* serializer.errors: field -> what is wrong with it.
errors(data, partial) ==
    LET missing == IF partial THEN {} ELSE Required \ DOMAIN data
        invalid == {f \in Supplied(data) : data[f] = Bad}
    IN  [f \in missing \cup invalid |->
            IF f \in missing THEN "required" ELSE "invalid"]

\* serializer.is_valid()
is_valid(data, partial) == DOMAIN errors(data, partial) = {}

\* serializer.validated_data: the supplied writable fields that validated.
validated_data(data) ==
    [f \in {g \in Supplied(data) : data[g] # Bad} |-> data[f]]

\* serializer.save() without an instance: a new record from the validated
\* fields, omitted fields at their blank default.
create(vd) == [f \in Fields |-> IF f \in DOMAIN vd THEN vd[f] ELSE Blank]

\* serializer.save() with an instance: only the validated fields are set
\* on it, every other attribute of the instance keeps its value.
update(instance, vd) ==
    [f \in Fields |-> IF f \in DOMAIN vd THEN vd[f] ELSE instance[f]]

\* serializer.data of one instance: its fields and its identifier.
to_representation(pk, instance) == ("id" :> pk) @@ instance

(***************************************************************************)
(* Restaurant.objects                                                      *)
(***************************************************************************)
\* instance.save(): UPDATE the row with this key, INSERT it when no row
\* was updated.
save(objects, pk, instance) == (pk :> instance) @@ objects

\* instance.delete(): DELETE the row with this key (no row: nothing done).
delete(objects, pk) == [i \in DOMAIN objects \ {pk} |-> objects[i]]

\* serializer.data of objects.all(), many=True, in key order.
RECURSIVE serialize_many(_, _)
serialize_many(objects, pks) ==
    IF pks = {} THEN <<>>
    ELSE LET m == CHOOSE x \in pks : \A y \in pks : x <= y
         IN  <<to_representation(m, objects[m])>>
                 \o serialize_many(objects, pks \ {m})

(***************************************************************************)
(* restaurant_list                                                         *)
(***************************************************************************)
\* Variant of ListGetResponse: objects.first() in place of objects.all().
ListGetResponse_First ==
    Response(serialize_many(restaurants,
                 {i \in DOMAIN restaurants :
                     \A j \in DOMAIN restaurants : i <= j}),
             HTTP_200_OK)

\* GET: every stored record, serialized.
ListGetResponse ==
    Response(serialize_many(restaurants, DOMAIN restaurants), HTTP_200_OK)

\* Variant of PostObjects: the record is saved without asking is_valid().
PostObjects_Unchecked(data) ==
    save(restaurants, nextId, create(validated_data(data)))

\* Variant of PostObjects: serializer.save() is left out.
PostObjects_NoSave(data) == restaurants

\* POST: the table after the request.
PostObjects(data) ==
    IF is_valid(data, FALSE)
    THEN save(restaurants, nextId, create(validated_data(data)))
    ELSE restaurants

\* POST: the response.
PostResponse(data) ==
    IF is_valid(data, FALSE)
    THEN Response(to_representation(nextId, create(validated_data(data))),
                  HTTP_201_CREATED)
    ELSE Response(errors(data, FALSE), HTTP_400_BAD_REQUEST)

restaurant_list_GET ==
    /\ req' = Request("list", "GET", 0, Empty)
    /\ resp' = ListGetResponse
    /\ UNCHANGED <<restaurants, nextId, concVars>>

restaurant_list_POST ==
    \E data \in Payloads :
        /\ is_valid(data, FALSE) => nextId <= MaxId
        /\ req' = Request("list", "POST", 0, data)
        /\ resp' = PostResponse(data)
        /\ restaurants' = PostObjects(data)
        /\ nextId' = IF is_valid(data, FALSE) THEN nextId + 1 ELSE nextId
        /\ UNCHANGED concVars

(***************************************************************************)
(* restaurant_detail                                                       *)
(***************************************************************************)
\* Variant of NotFoundResponse: Response() without status=.
NotFoundResponse_NoStatus == Response(Empty, HTTP_200_OK)

\* Restaurant.objects.get(pk=pk) raised DoesNotExist.
NotFoundResponse == Response(Empty, HTTP_404_NOT_FOUND)

DoesNotExist(pk) == pk \notin DOMAIN restaurants

DetailGetResponse(pk) ==
    IF DoesNotExist(pk) THEN NotFoundResponse
    ELSE Response(to_representation(pk, restaurants[pk]), HTTP_200_OK)

\* Variant of UpdateObjects: the instance is saved without asking is_valid().
UpdateObjects_Unchecked(pk, data, partial) ==
    IF ~DoesNotExist(pk)
    THEN save(restaurants, pk, update(restaurants[pk], validated_data(data)))
    ELSE restaurants

\* Variant of UpdateObjects: the body's "id" is written to the instance
\* before it is saved, so the row it names is the one written.
UpdateObjects_BodyId(pk, data, partial) ==
    IF ~DoesNotExist(pk) /\ is_valid(data, partial)
    THEN save(restaurants,
              IF "id" \in DOMAIN data THEN data["id"] ELSE pk,
              update(restaurants[pk], validated_data(data)))
    ELSE restaurants

\* PUT and PATCH differ in partial only.
UpdateObjects(pk, data, partial) ==
    IF ~DoesNotExist(pk) /\ is_valid(data, partial)
    THEN save(restaurants, pk, update(restaurants[pk], validated_data(data)))
    ELSE restaurants

UpdateResponse(pk, data, partial) ==
    IF DoesNotExist(pk) THEN NotFoundResponse
    ELSE IF is_valid(data, partial)
    THEN Response(to_representation(pk,
                      update(restaurants[pk], validated_data(data))),
                  HTTP_200_OK)
    ELSE Response(errors(data, partial), HTTP_400_BAD_REQUEST)

\* Variant of PatchObjects: the serializer is built from the data alone
\* (no instance), so the saved row holds the supplied fields only.
PatchObjects_Replace(pk, data) ==
    IF ~DoesNotExist(pk) /\ is_valid(data, TRUE)
    THEN save(restaurants, pk, create(validated_data(data)))
    ELSE restaurants

PutObjects(pk, data) == UpdateObjects(pk, data, FALSE)
PutResponse(pk, data) == UpdateResponse(pk, data, FALSE)
PatchObjects(pk, data) == UpdateObjects(pk, data, TRUE)
PatchResponse(pk, data) == UpdateResponse(pk, data, TRUE)

DeleteObjects(pk) ==
    IF DoesNotExist(pk) THEN restaurants ELSE delete(restaurants, pk)

\* Variant of DeleteResponse: objects.filter(pk=pk).delete(), no lookup.
DeleteResponse_NoLookup(pk) == Response(Empty, HTTP_204_NO_CONTENT)

DeleteResponse(pk) ==
    IF DoesNotExist(pk) THEN NotFoundResponse
    ELSE Response(Empty, HTTP_204_NO_CONTENT)

restaurant_detail_GET ==
    \E pk \in Ids :
        /\ req' = Request("item", "GET", pk, Empty)
        /\ resp' = DetailGetResponse(pk)
        /\ UNCHANGED <<restaurants, nextId, concVars>>

restaurant_detail_PUT ==
    \E pk \in Ids, data \in Payloads :
        /\ req' = Request("item", "PUT", pk, data)
        /\ resp' = PutResponse(pk, data)
        /\ restaurants' = PutObjects(pk, data)
        /\ UNCHANGED <<nextId, concVars>>

restaurant_detail_DELETE ==
    \E pk \in Ids :
        /\ req' = Request("item", "DELETE", pk, Empty)
        /\ resp' = DeleteResponse(pk)
        /\ restaurants' = DeleteObjects(pk)
        /\ UNCHANGED <<nextId, concVars>>

restaurant_detail_PATCH ==
    \E pk \in Ids, data \in Payloads :
        /\ req' = Request("item", "PATCH", pk, data)
        /\ resp' = PatchResponse(pk, data)
        /\ restaurants' = PatchObjects(pk, data)
        /\ UNCHANGED <<nextId, concVars>>

(***************************************************************************)
(* Requests handled one after another                                      *)
(***************************************************************************)
Procs == {"w1", "w2"}

Init ==
    /\ restaurants = <<>>
    /\ nextId = 1
    /\ req = NoRequest
    /\ resp = Response(Empty, 0)
    /\ pc = [p \in Procs |-> "idle"]
    /\ request = [p \in Procs |-> NoRequest]
    /\ restaurant = [p \in Procs |-> Empty]
    /\ response = [p \in Procs |-> 0]

Next ==
    \/ restaurant_list_GET
    \/ restaurant_list_POST
    \/ restaurant_detail_GET
    \/ restaurant_detail_PUT
    \/ restaurant_detail_DELETE
    \/ restaurant_detail_PATCH

Spec == Init /\ [][Next]_vars

(***************************************************************************)
(* Properties of the handlers, requests handled one after another          *)
(***************************************************************************)
IsList(r, method) == r.endpoint = "list" /\ r.method = method
IsItem(r, method) == r.endpoint = "item" /\ r.method = method

\* A body fails validation: a required field is missing (unless partial),
\* or a supplied field holds an invalid value.
FailsValidation(data, partial) ==
    \/ ~partial /\ \E f \in Required : f \notin DOMAIN data
    \/ \E f \in DOMAIN data \cap Fields : data[f] = Bad

\* A 400 body: names at least one field, and only fields at fault.
IsErrorBody(body, data, partial) ==
    /\ DOMAIN body # {}
    /\ \A f \in DOMAIN body :
          \/ ~partial /\ f \in Required /\ f \notin DOMAIN data
          \/ f \in DOMAIN data \cap Fields /\ data[f] = Bad

\* Every record but the one under pk is stored as before.
OthersUnchanged(pk) ==
    \A i \in (DOMAIN restaurants \cup DOMAIN restaurants') \ {pk} :
        /\ i \in DOMAIN restaurants
        /\ i \in DOMAIN restaurants'
        /\ restaurants'[i] = restaurants[i]

\* C1: a GET, PUT, PATCH or DELETE on the item endpoint for an identifier
\* that is not stored answers 404 with an empty body, whatever the body of
\* the request, and leaves the stored records as they were.
C1_MissingIs404 ==
    [][ (req'.endpoint = "item" /\ req'.pk \notin DOMAIN restaurants)
            => /\ resp'.status = 404
               /\ resp'.body = Empty
               /\ restaurants' = restaurants ]_vars

\* C1 happens: a PUT with a valid body was answered 404 while other
\* records are stored.
C1_Witness ==
    /\ IsItem(req, "PUT")
    /\ ~FailsValidation(req.data, FALSE)
    /\ resp.status = 404
    /\ restaurants # <<>>

\* C2: a POST whose body fails validation answers 400 with the validation
\* errors and the stored records are exactly those before the request.
C2_InvalidPostNoOp ==
    [][ (IsList(req', "POST") /\ FailsValidation(req'.data, FALSE))
            => /\ resp'.status = 400
               /\ IsErrorBody(resp'.body, req'.data, FALSE)
               /\ restaurants' = restaurants
               /\ nextId' = nextId ]_vars

\* C2 happens: a POST with a valid name and an invalid address was
\* rejected while a record is stored.
C2_Witness ==
    /\ IsList(req, "POST")
    /\ resp.status = 400
    /\ "name" \in DOMAIN req.data /\ req.data["name"] # Bad
    /\ "address" \in DOMAIN req.data /\ req.data["address"] = Bad
    /\ restaurants # <<>>

\* C3: a POST with a valid body answers 201 with a record that carries
\* its assigned identifier, and the GET on that identifier handled next
\* answers 200 with the same record.
C3_PostThenGet ==
    /\ [](IsList(req, "POST") /\ ~FailsValidation(req.data, FALSE)
            => /\ resp.status = 201
               /\ "id" \in DOMAIN resp.body
               /\ resp.body["id"] \in Ids
               /\ DetailGetResponse(resp.body["id"]).status = 200
               /\ DetailGetResponse(resp.body["id"]).body = resp.body)
    /\ [][ (IsList(req, "POST") /\ resp.status = 201
             /\ IsItem(req', "GET") /\ req'.pk = resp.body["id"])
            => /\ resp'.status = 200
               /\ resp'.body = resp.body ]_vars

\* C3 happens: the second record was created, from a body with all fields.
C3_Witness ==
    /\ IsList(req, "POST")
    /\ resp.status = 201
    /\ DOMAIN req.data = Fields
    /\ resp.body["id"] = 2
    /\ Cardinality(DOMAIN restaurants) = 2

\* C4: a PATCH answered 200 set the supplied fields to the supplied
\* values and left every other field of the record, and every other
\* record, as it was.
C4_PatchFrame ==
    [][ (IsItem(req', "PATCH") /\ req'.pk \in DOMAIN restaurants
             /\ resp'.status = 200)
            => /\ req'.pk \in DOMAIN restaurants'
               /\ \A f \in Fields :
                     restaurants'[req'.pk][f] =
                        IF f \in DOMAIN req'.data THEN req'.data[f]
                        ELSE restaurants[req'.pk][f]
               /\ OthersUnchanged(req'.pk) ]_vars

\* C4 happens: a PATCH of the address alone succeeded on a record, with
\* another record stored.
C4_Witness ==
    /\ IsItem(req, "PATCH")
    /\ resp.status = 200
    /\ DOMAIN req.data = {"address"}
    /\ Cardinality(DOMAIN restaurants) = 2

C6_InvalidUpdateNoOp ==
    [][ \A method \in {"PUT", "PATCH"} :
          (IsItem(req', method) /\ req'.pk \in DOMAIN restaurants
             /\ FailsValidation(req'.data, method = "PATCH"))
            => /\ resp'.status = 400
               /\ IsErrorBody(resp'.body, req'.data, method = "PATCH")
               /\ restaurants' = restaurants ]_vars

\* C6 happens: a PATCH with a valid name and an invalid address was
\* rejected on a stored record.
C6_Witness ==
    /\ IsItem(req, "PATCH")
    /\ resp.status = 400
    /\ req.pk \in DOMAIN restaurants
    /\ "name" \in DOMAIN req.data /\ req.data["name"] # Bad
    /\ "address" \in DOMAIN req.data /\ req.data["address"] = Bad

\* Identifiers that were assigned and are stored no longer.
Removed == {i \in Ids : i < nextId /\ i \notin DOMAIN restaurants}

\* C7: a DELETE on a stored identifier answers 204 and removes that
\* record only; from then on the identifier is never stored again and
\* every GET, PUT, PATCH or DELETE on it answers 404.
C7_DeleteThen404 ==
    [][ /\ (IsItem(req', "DELETE") /\ req'.pk \in DOMAIN restaurants)
            => /\ resp'.status = 204
               /\ resp'.body = Empty
               /\ req'.pk \notin DOMAIN restaurants'
               /\ OthersUnchanged(req'.pk)
        /\ Removed \subseteq Removed'
        /\ (req'.endpoint = "item" /\ req'.pk \in Removed)
            => resp'.status = 404 ]_vars

\* C7 happens: a DELETE was answered 404 on an identifier that had been
\* assigned.
C7_Witness ==
    /\ IsItem(req, "DELETE")
    /\ resp.status = 404
    /\ req.pk \in Removed

\* C8: records keep their identifier. A step changes a stored record only
\* when it is a PUT or PATCH addressed to it; such a request leaves the
\* set of identifiers as it is and answers with the record under the
\* identifier of the URL, whatever "id" its body carries; and a new
\* identifier is the one the table assigned to a POST.
C8_IdImmutable ==
    [][ /\ \A i \in DOMAIN restaurants \cap DOMAIN restaurants' :
              restaurants'[i] # restaurants[i]
                => (IsItem(req', "PUT") \/ IsItem(req', "PATCH")) /\ req'.pk = i
        /\ \A i \in DOMAIN restaurants' \ DOMAIN restaurants :
              IsList(req', "POST") /\ i = nextId /\ resp'.body["id"] = i
        /\ ((IsItem(req', "PUT") \/ IsItem(req', "PATCH")) /\ resp'.status = 200)
            => /\ DOMAIN restaurants' = DOMAIN restaurants
               /\ resp'.body["id"] = req'.pk
               /\ \A f \in Fields :
                     resp'.body[f] = restaurants'[req'.pk][f] ]_vars

\* C8 happens: a PUT succeeded whose body carries the identifier of
\* another stored record.
C8_Witness ==
    /\ IsItem(req, "PUT")
    /\ resp.status = 200
    /\ "id" \in DOMAIN req.data
    /\ req.data["id"] # req.pk
    /\ req.data["id"] \in DOMAIN restaurants

\* C9: GET on the collection answers 200 with the stored records, each
\* once and no other, and no GET changes the table.
C9_ListIsStore ==
    /\ [](IsList(req, "GET")
            => /\ resp.status = 200
               /\ Len(resp.body) = Cardinality(DOMAIN restaurants)
               /\ \A i \in DOMAIN restaurants :
                     \E k \in 1..Len(resp.body) :
                        /\ resp.body[k]["id"] = i
                        /\ \A f \in Fields :
                              resp.body[k][f] = restaurants[i][f])
    /\ [][ req'.method = "GET"
            => restaurants' = restaurants /\ nextId' = nextId ]_vars

\* C9 happens: the collection was listed with one record stored and
\* another one deleted before.
C9_Witness ==
    /\ IsList(req, "GET")
    /\ Len(resp.body) = 1
    /\ Removed # {}

(***************************************************************************)
(* restaurant_detail run by two workers at once                            *)
(*                                                                         *)
(* The handler holds no lock and opens no transaction around its two       *)
(* database statements: objects.get(pk=pk) reads the row into the worker's *)
(* own instance, and save() or delete() writes later. Each statement is    *)
(* atomic; any statement of another worker may run in between.             *)
(***************************************************************************)
\* Bodies sent in the concurrent runs: the required fields alone.
ConcPayloads == [Required -> Values \cup {Bad}]

\* A worker handles a POST: one INSERT.
restaurant_list_insert ==
    \E data \in ConcPayloads :
        /\ is_valid(data, FALSE) => nextId <= MaxId
        /\ restaurants' = PostObjects(data)
        /\ nextId' = IF is_valid(data, FALSE) THEN nextId + 1 ELSE nextId
        /\ UNCHANGED <<req, resp, concVars>>

\* restaurant = Restaurant.objects.get(pk=pk), or the 404.
restaurant_detail_get(p) ==
    /\ pc[p] = "idle"
    /\ \E method \in {"GET", "PUT", "DELETE", "PATCH"}, pk \in Ids :
       \E data \in IF method \in {"PUT", "PATCH"} THEN ConcPayloads ELSE {Empty} :
          IF DoesNotExist(pk)
          THEN /\ response' = [response EXCEPT ![p] = NotFoundResponse.status]
               /\ UNCHANGED <<pc, request, restaurant>>
          ELSE /\ pc' = [pc EXCEPT ![p] = "found"]
               /\ request' = [request EXCEPT ![p] = Request("item", method, pk, data)]
               /\ restaurant' = [restaurant EXCEPT ![p] = restaurants[pk]]
               /\ UNCHANGED response
    /\ UNCHANGED <<restaurants, nextId, req, resp>>

\* The branch on request.method, on the instance loaded before.
restaurant_detail_method(p) ==
    /\ pc[p] = "found"
    /\ LET r == request[p]
           partial == r.method = "PATCH"
       IN  CASE r.method = "GET" ->
                  /\ response' = [response EXCEPT ![p] = HTTP_200_OK]
                  /\ UNCHANGED restaurants
             [] r.method = "DELETE" ->
                  /\ restaurants' = delete(restaurants, r.pk)
                  /\ response' = [response EXCEPT ![p] = HTTP_204_NO_CONTENT]
             [] OTHER ->
                  IF is_valid(r.data, partial)
                  THEN /\ restaurants' =
                             save(restaurants, r.pk,
                                  update(restaurant[p], validated_data(r.data)))
                       /\ response' = [response EXCEPT ![p] = HTTP_200_OK]
                  ELSE /\ response' = [response EXCEPT ![p] = HTTP_400_BAD_REQUEST]
                       /\ UNCHANGED restaurants
    /\ pc' = [pc EXCEPT ![p] = "idle"]
    /\ request' = [request EXCEPT ![p] = NoRequest]
    /\ restaurant' = [restaurant EXCEPT ![p] = Empty]
    /\ UNCHANGED <<nextId, req, resp>>

NextConc ==
    \/ restaurant_list_insert
    \/ \E p \in Procs : restaurant_detail_get(p)
    \/ \E p \in Procs : restaurant_detail_method(p)

SpecConc == Init /\ [][NextConc]_vars

\* C10: under any interleaving of DELETE with PUT, PATCH or DELETE on the
\* same identifier, an identifier whose record was deleted is never stored
\* again, and a record comes into existence only through a POST.
C10_NoResurrection ==
    [][ /\ Removed \subseteq Removed'
        /\ \A i \in DOMAIN restaurants' \ DOMAIN restaurants :
              i = nextId /\ nextId' = nextId + 1 ]_vars

====
